---- MODULE Spec2Model ----
(***************************************************************************)
(* State-machine model of the JGit native filesystem bridge               *)
(* (libjgit_native: util.c, list.c, symlink.c, lstat.c, libjgit.h).       *)
(*                                                                         *)
(* Strings are sequences of byte codes.  A native C string is a byte      *)
(* sequence that ends in the terminator 0; the NULL pointer is the empty  *)
(* sequence (a real C string always holds at least its terminator).       *)
(***************************************************************************)
EXTENDS Integers, Sequences, FiniteSets, TLC

(*************************** bounds of the model ***************************)
\* number of generated plain entries a listed directory may hold
MaxFill == 32

(***************************** errno values *******************************)
ENOENT == 2
EIO == 5
ENOMEM == 12
EACCES == 13
EFAULT == 14
EEXIST == 17
ENOTDIR == 20

(************************** d_type codes of dirent ************************)
DT_UNKNOWN == 0
DT_FIFO == 1
DT_DIR == 4
DT_REG == 8
DT_LNK == 10

(******************************* bytes *************************************)
NUL == 0
DOT == 46
SLASH == 47
CH_a == 97
CH_d == 100
CH_f == 102

\* the NULL pointer of a char* / of a native buffer
NULLPTR == <<>>

\* strlen(): number of bytes in front of the first terminator
strlen(s) ==
    LET nuls == {i \in DOMAIN s : s[i] = NUL} IN
      IF nuls = {} THEN Len(s)
      ELSE (CHOOSE i \in nuls : \A j \in nuls : i <= j) - 1

\* the text a C string denotes: the bytes in front of the first terminator
CStr(s) == SubSeq(s, 1, strlen(s))

\* C array read s[i] with a 0-based index
At(s, i) == s[i + 1]

(************************** native integers ********************************)
\* A native integer wider than 31 bits is a little-endian sequence of 16-bit
\* limbs; size_t and ssize_t have four limbs (64 bits), ssize_t in two's
\* complement.
LimbBase == 65536
SignLimb == 32768

RECURSIVE Pow2(_)
Pow2(k) == IF k = 0 THEN 1 ELSE 2 * Pow2(k - 1)

\* the size_t with the value k, for 0 <= k < 2^31
ToSize(k) == << k % LimbBase, k \div LimbBase, 0, 0 >>
ZeroSize == ToSize(0)

\* (size_t)(ssize_t)-1
MinusOne == << 65535, 65535, 65535, 65535 >>

\* the value of a size below 2^31
SizeVal(x) == x[2] * LimbBase + x[1]
SizeIsSmall(x) == x[4] = 0 /\ x[3] = 0 /\ x[2] < SignLimb

\* a + b at the width of size_t: the carry out of the top limb is dropped
SizeAdd(a, b) ==
    LET s1 == a[1] + b[1]
        s2 == a[2] + b[2] + (s1 \div LimbBase)
        s3 == a[3] + b[3] + (s2 \div LimbBase)
        s4 == a[4] + b[4] + (s3 \div LimbBase)
    IN << s1 % LimbBase, s2 % LimbBase, s3 % LimbBase, s4 % LimbBase >>

\* a < b on unsigned sizes
SizeLt(a, b) ==
    \/ a[4] < b[4]
    \/ a[4] = b[4] /\ a[3] < b[3]
    \/ a[4] = b[4] /\ a[3] = b[3] /\ a[2] < b[2]
    \/ a[4] = b[4] /\ a[3] = b[3] /\ a[2] = b[2] /\ a[1] < b[1]

\* x < 0 on an ssize_t
IsNegative(x) == x[4] >= SignLimb

(***************************** exceptions **********************************)
NoExc == [kind |-> "none", hasMsg |-> FALSE, msg |-> <<>>]

\* ThrowNew(env, cls, msg): the exception object built from a class and a
\* message pointer (NULL message: no message)
NewExc(cls, msg) ==
    [kind |-> cls, hasMsg |-> (msg # NULLPTR), msg |-> CStr(msg)]

\* an OutOfMemoryError raised by the host itself (EnsureLocalCapacity,
\* NewObjectArray, AllocObject, GetStringUTFChars)
HostOOM == [kind |-> "OutOfMemory", hasMsg |-> FALSE, msg |-> <<>>]

\* an exception thrown by a called host method (String.getBytes)
HostThrown == [kind |-> "HostException", hasMsg |-> FALSE, msg |-> <<>>]

\* strerror(e): the system message of an errno, as a C string
strerror(e) == <<69, e, NUL>>

\* the exception that is pending after a raise of e when cur was pending
\* before: raising on top of a pending exception is outside the JNI
\* contract, either of the two may survive
AfterRaise(cur, e) == IF cur = NoExc THEN {e} ELSE {cur, e}

(***************************** util.c **************************************)
ErrnoClass_Swapped(e) ==
    CASE e = EACCES  -> "AccessDenied"
      [] e = ENOENT  -> "NotDirectory"
      [] e = ENOTDIR -> "NoSuchFile"
      [] OTHER       -> "NativeException"

ErrnoClass(e) ==
    CASE e = EACCES  -> "AccessDenied"
      [] e = ENOENT  -> "NoSuchFile"
      [] e = ENOTDIR -> "NotDirectory"
      [] OTHER       -> "NativeException"

ErrnoMsg(e, path_str) ==
    IF e \in {EACCES, ENOENT, ENOTDIR} THEN path_str ELSE strerror(e)

\* jgit_ThrowErrno: the exception raised for the current errno and path
jgit_ThrowErrno(e, path_str) == NewExc(ErrnoClass(e), ErrnoMsg(e, path_str))

\* jgit_ThrowOutOfMemory: ThrowNew(env, OutOfMemory._class, NULL)
jgit_ThrowOutOfMemory == NewExc("OutOfMemory", NULLPTR)

GSN_Outcomes == {"ok", "capacity", "thrown", "nomem"}

\* jgit_GetStringNative(env, src) under a given outcome of its host calls
\* and of malloc: the returned buffer, the exception it leaves raised and
\* the errno it leaves
jgit_GetStringNative(src, outcome, e) ==
    CASE outcome = "capacity" -> [r |-> NULLPTR, raised |-> HostOOM, errno |-> e]
      [] outcome = "thrown"   -> [r |-> NULLPTR, raised |-> HostThrown, errno |-> e]
      [] outcome = "nomem"    -> [r |-> NULLPTR, raised |-> jgit_ThrowOutOfMemory,
                                  errno |-> ENOMEM]
      [] OTHER                -> [r |-> Append(src, NUL), raised |-> NoExc, errno |-> e]

\* jgit_NewNativeString(env, buf, len): the host string made of exactly the
\* first len bytes of buf
jgit_NewNativeString(buf, len) == SubSeq(buf, 1, len)

(***************************** state ***************************************)
VARIABLES
    op,         \* the boundary operation in progress, "idle" between calls
    pc,         \* position inside the operation
    errno,      \* the errno variable of the calling thread
    exc,        \* the exception pending in the host environment
    result,     \* return value: [null |-> BOOLEAN, val |-> value]
    log,        \* resource and raise events of the call, in program order
    reg,        \* Handle Registry: handle name -> resolved or not
    path,       \* jstring path argument
    path_str,   \* char *path_str
    dirents,    \* the entries the open directory stream will deliver
    dirpos,     \* number of entries readdir_r has delivered
    dirp,       \* DIR *dirp: "NULL" or "open"
    entryp,     \* struct dirent *entryp: "NULL" or "buf"
    entry_sz,   \* size passed to malloc for entryp
    res,        \* jobjectArray res: [null |-> BOOLEAN, a |-> slots]
    res_cap,    \* jint res_cap
    res_cnt,    \* jint res_cnt
    status,     \* int s: the status the last readdir_r returned
    links,      \* file system: path -> target of the symlink there, <<>> if none
    target,     \* jstring target argument of this run's createLink calls
    target_str, \* char *target_str
    buf_sz,     \* size_t buf_sz
    buf_ptr,    \* char *buf_ptr: "small", "heap" or "NULL"
    buf,        \* the bytes of the buffer buf_ptr points to
    n,          \* ssize_t n
    st,         \* struct stat st as filled in by lstat
    ldmod,      \* the OnLoad / OnUnload function in progress
    ldpos,      \* number of handles the running OnLoad has resolved
    disk,       \* file system: path -> the entries of the directory there
    other       \* the automatic variables of the thread that is not running

commonVars == <<op, pc, errno, exc, result, log, reg, path, path_str>>
listVars == <<dirents, dirpos, dirp, entryp, entry_sz, res, res_cap, res_cnt,
              status>>
linkVars == <<links, target, target_str, buf_sz, buf_ptr, buf, n>>
statVars == <<st>>
loadVars == <<ldmod, ldpos>>
worldVars == <<disk, other>>
vars == <<commonVars, listVars, linkVars, statVars, loadVars, worldVars>>

(************************** Handle Registry ********************************)
UtilHandles == <<"AccessDenied", "NoSuchFile", "NotDirectory",
                 "NativeException", "OutOfMemory", "String", "String.getBytes">>
ListHandles == <<"DirEnt", "DirEnt.name", "DirEnt.type">>
LStatHandles == <<"LStat", "LStat.ctime", "LStat.mtime", "LStat.ctime_nsec",
                  "LStat.mtime_nsec", "LStat.dev", "LStat.ino", "LStat.mode",
                  "LStat.uid", "LStat.gid", "LStat.size">>

Range(f) == {f[i] : i \in DOMAIN f}
AllHandles ==
    {"AccessDenied", "NoSuchFile", "NotDirectory", "NativeException",
     "OutOfMemory", "String", "String.getBytes",
     "DirEnt", "DirEnt.name", "DirEnt.type",
     "LStat", "LStat.ctime", "LStat.mtime", "LStat.ctime_nsec",
     "LStat.mtime_nsec", "LStat.dev", "LStat.ino", "LStat.mode",
     "LStat.uid", "LStat.gid", "LStat.size"}

\* the classes jgit_ThrowErrno chooses from
ErrnoHandles == {"AccessDenied", "NoSuchFile", "NotDirectory", "NativeException"}

RegAfterUse_Cleared(r, hs) == [h \in DOMAIN r |-> IF h \in hs THEN FALSE ELSE r[h]]

\* the registry after an operation used the handles hs: X._class, X.name
\* are read as values, no operation assigns one
RegAfterUse(r, hs) == r

(***************************** helpers *************************************)
Count(ev) == Cardinality({i \in DOMAIN log : log[i] = ev})

\* the log event of a raise: a raise on top of a pending exception is marked
RaiseEv == IF exc = NoExc THEN "raise" ELSE "reraise"

\* the log events of a failed jgit_GetStringNative: its malloc failure is an
\* allocation failure, the other outcomes are failures of host calls
MarshalFailEvents(o, rv) ==
    IF o = "nomem" THEN <<"alloc_fail", rv>> ELSE <<rv>>

NullRes == [null |-> TRUE, val |-> <<>>]
NullArr == [null |-> TRUE, a |-> <<>>]
NullSlot == [null |-> TRUE, name |-> <<>>, type |-> 0]

NoStat == <<>>

ListLocalsInit ==
    /\ dirents = <<>> /\ dirpos = 0 /\ dirp = "NULL" /\ entryp = "NULL"
    /\ entry_sz = 0 /\ res = NullArr /\ res_cap = 0 /\ res_cnt = 0
    /\ status = 0

ListLocalsReset ==
    /\ dirents' = <<>> /\ dirpos' = 0 /\ dirp' = "NULL" /\ entryp' = "NULL"
    /\ entry_sz' = 0 /\ res' = NullArr /\ res_cap' = 0 /\ res_cnt' = 0
    /\ status' = 0

(***************************** inputs **************************************)
Paths == { <<SLASH, CH_d>>, <<SLASH, CH_a>> }
ListPaths == { <<SLASH, CH_d>> }

Dirent(name, t) == [d_name |-> Append(name, NUL), d_type |-> t]

\* hand-picked entries delivered in front of / behind the generated ones
PrefixChoices ==
    { <<>>,
      <<Dirent(<<DOT>>, DT_DIR), Dirent(<<DOT, DOT>>, DT_DIR)>>,
      <<Dirent(<<DOT, DOT, CH_a>>, DT_LNK)>>,
      <<Dirent(<<DOT, DOT, DOT>>, DT_UNKNOWN)>> }
SuffixChoices ==
    { <<>>,
      <<Dirent(<<DOT, DOT>>, DT_DIR)>>,
      <<Dirent(<<DOT, CH_a>>, DT_REG)>>,
      <<Dirent(<<CH_a>>, DT_FIFO), Dirent(<<DOT>>, DT_DIR)>> }

FillTypes == <<DT_REG, DT_DIR, DT_LNK>>
\* k generated entries with pairwise different plain names
Fill(k) == [i \in 1..k |-> Dirent(<<CH_f, 32 + i>>, FillTypes[(i % 3) + 1])]

Dirs == { p \o Fill(k) \o q :
            p \in PrefixChoices, q \in SuffixChoices, k \in 0..MaxFill }

\* errno values the environment reports
OpendirErrnos == {EACCES, ENOENT, ENOTDIR}
ReaddirErrnos == {EIO}

(***************************** list.c **************************************)
dtype_CodeAsIs(e) ==
    CASE e.d_type = DT_DIR -> 1
      [] e.d_type = DT_REG -> 2
      [] e.d_type = DT_LNK -> 3
      [] OTHER             -> e.d_type

dtype(e) ==
    CASE e.d_type = DT_DIR -> 1
      [] e.d_type = DT_REG -> 2
      [] e.d_type = DT_LNK -> 3
      [] OTHER             -> 0

IsDotEntry_AnyDot(e) == At(e.d_name, 0) = DOT

\* the test of lines 137-142: the entry is "." or ".."
IsDotEntry(e) ==
    /\ At(e.d_name, 0) = DOT
    /\ \/ At(e.d_name, 1) = NUL
       \/ At(e.d_name, 1) = DOT /\ At(e.d_name, 2) = NUL

resize_array_DropLast(src, new_cap, live_cnt) ==
    [null |-> FALSE,
     a |-> [i \in 1..new_cap |-> IF i < live_cnt THEN src.a[i] ELSE NullSlot]]

\* resize_array(env, src, new_cap, live_cnt) when NewObjectArray succeeds
resize_array(src, new_cap, live_cnt) ==
    [null |-> FALSE,
     a |-> [i \in 1..new_cap |-> IF i <= live_cnt THEN src.a[i] ELSE NullSlot]]

\* NewObjectArray(env, cap, DirEnt._class, NULL)
NewObjectArray(cap) == [null |-> FALSE, a |-> [i \in 1..cap |-> NullSlot]]

SetObjectArrayElement_AtFront(arr, idx, d) ==
    [arr EXCEPT !.a = [i \in DOMAIN arr.a |->
                         IF i = 1 THEN d
                         ELSE IF i <= idx + 1 THEN arr.a[i - 1] ELSE arr.a[i]]]

\* SetObjectArrayElement(env, arr, idx, d), idx counted from 0 as in line 162
SetObjectArrayElement(arr, idx, d) == [arr EXCEPT !.a[idx + 1] = d]

InitialCapacity == 16

\* the largest jint
JintMax == 2147483647

\* 2 * res_cap (lines 145 and 148) at the width of jint.  A product above
\* JintMax is a signed overflow, which the language leaves undefined: the
\* build either wraps it to 2 * cap - 2^32 or traps.
GrownCap(cap) ==
    IF cap <= JintMax \div 2 THEN {[trap |-> FALSE, val |-> 2 * cap]}
    ELSE {[trap |-> FALSE, val |-> ((cap - JintMax) - 1) + ((cap - JintMax) - 1)],
          [trap |-> TRUE, val |-> 0]}

NAME_MAX == 255
DNameOffset == 19

\* the bytes readdir_r writes into entryp for an entry (line 131): the
\* header, the name and its terminator
EntryBytes(e) == DNameOffset + strlen(e.d_name) + 1

\* entry of the call: the locals as declared in lines 101-106
ListCall ==
    /\ UNCHANGED <<linkVars, statVars, loadVars, worldVars>>
    /\ op = "idle"
    /\ op' = "list" /\ pc' = "marshal"
    /\ \E p \in DOMAIN disk : path' = p
    /\ path_str' = NULLPTR
    /\ dirp' = "NULL" /\ entryp' = "NULL" /\ entry_sz' = 0
    /\ res' = NullArr /\ res_cap' = InitialCapacity /\ res_cnt' = 0
    /\ dirents' = <<>> /\ dirpos' = 0 /\ status' = 0
    /\ result' = NullRes /\ log' = <<>>
    /\ UNCHANGED <<errno, exc, reg>>

\* lines 108-110
ListMarshal ==
    /\ UNCHANGED <<linkVars, statVars, loadVars, worldVars>>
    /\ op = "list" /\ pc = "marshal"
    /\ \E o \in GSN_Outcomes :
         LET g == jgit_GetStringNative(path, o, errno) IN
           /\ path_str' = g.r
           /\ errno' = g.errno
           /\ IF g.r = NULLPTR
                THEN /\ exc' \in AfterRaise(exc, g.raised)
                     /\ log' = log \o MarshalFailEvents(o, RaiseEv)
                     /\ pc' = "fail"
                ELSE /\ exc' = exc
                     /\ log' = Append(log, "malloc_path")
                     /\ pc' = "entry"
    /\ UNCHANGED <<op, result, path, listVars>>
    /\ reg' = RegAfterUse(reg, {"String.getBytes", "OutOfMemory"})

\* lines 112-115
ListAllocEntry ==
    /\ UNCHANGED <<linkVars, statVars, loadVars, worldVars>>
    /\ op = "list" /\ pc = "entry"
    /\ \E name_max \in {NAME_MAX, -1}, ok \in BOOLEAN :
         /\ entry_sz' = DNameOffset + name_max + 1
         /\ IF ok
              THEN /\ entryp' = "buf" /\ errno' = errno
                   /\ log' = Append(log, "malloc_entry")
                   /\ pc' = "array"
              ELSE /\ entryp' = "NULL" /\ errno' = ENOMEM
                   /\ log' = Append(log, "alloc_fail")
                   /\ pc' = "fail"
    /\ UNCHANGED <<op, exc, result, reg, path, path_str,
                   dirents, dirpos, dirp, res, res_cap, res_cnt, status>>

\* lines 117-119
ListAllocArray ==
    /\ UNCHANGED <<linkVars, statVars, loadVars, worldVars>>
    /\ op = "list" /\ pc = "array"
    /\ \E ok \in BOOLEAN :
         IF ok
           THEN /\ res' = NewObjectArray(res_cap)
                /\ exc' = exc /\ log' = log
                /\ pc' = "open"
           ELSE /\ res' = NullArr
                /\ exc' \in AfterRaise(exc, HostOOM)
                /\ log' = log \o <<"alloc_fail", RaiseEv>>
                /\ pc' = "fail"
    /\ UNCHANGED <<op, errno, result, path, path_str,
                   dirents, dirpos, dirp, entryp, entry_sz, res_cap, res_cnt,
                   status>>
    /\ reg' = RegAfterUse(reg, {"DirEnt"})

\* lines 121-123
ListOpen ==
    /\ UNCHANGED <<linkVars, statVars, loadVars, worldVars>>
    /\ op = "list" /\ pc = "open"
    /\ \/ \* the stream starts in front of the first entry of the directory
          /\ dirp' = "open" /\ errno' = errno
          /\ dirents' = disk[CStr(path_str)]
          /\ log' = Append(log, "opendir")
          /\ pc' = "loop"
       \/ /\ dirp' = "NULL"
          /\ \E e \in OpendirErrnos : errno' = e
          /\ log' = log
          /\ pc' = "fail"
          /\ UNCHANGED dirents
    /\ UNCHANGED <<op, exc, result, reg, path, path_str,
                   dirpos, entryp, entry_sz, res, res_cap, res_cnt, status>>

\* one pass of the loop of lines 125-165
ListLoop ==
    /\ UNCHANGED <<linkVars, statVars, loadVars, worldVars>>
    /\ op = "list" /\ pc = "loop"
    /\ \/ \* readdir_r returns a nonzero status s; errno may or may not follow
          /\ \E sv \in ReaddirErrnos : status' = sv /\ errno' \in {errno, sv}
          /\ pc' = "fail"
          /\ UNCHANGED <<exc, log, dirpos, res, res_cap, res_cnt>>
       \/ \* end of the stream: e is NULL
          /\ dirpos = Len(dirents)
          /\ status' = 0
          /\ pc' = "finish"
          /\ UNCHANGED <<errno, exc, log, dirpos, res, res_cap, res_cnt>>
       \/ \* readdir_r writes past the end of entryp, which is undefined: the
          \* process is terminated, or the call goes on as in the next branch
          /\ dirpos < Len(dirents)
          /\ EntryBytes(dirents[dirpos + 1]) > entry_sz
          /\ dirpos' = dirpos + 1
          /\ pc' = "abort"
          /\ UNCHANGED <<errno, exc, log, res, res_cap, res_cnt, status>>
       \/ /\ dirpos < Len(dirents)
          /\ dirpos' = dirpos + 1
          /\ status' = 0
          /\ errno' = errno
          /\ LET e == dirents[dirpos + 1] IN
             IF IsDotEntry(e)
               THEN /\ pc' = "loop"
                    /\ UNCHANGED <<exc, log, res, res_cap, res_cnt>>
               ELSE \E o \in {"ok", "grow_fail", "obj_fail"},
                       g \in GrownCap(res_cap) :
                      LET needGrow == (res_cnt = res_cap)
                          cap1 == IF needGrow THEN g.val ELSE res_cap
                          res1 == IF needGrow /\ o # "grow_fail"
                                    THEN resize_array(res, g.val, res_cnt)
                                    ELSE res
                          log1 == IF needGrow THEN Append(log, "grow") ELSE log
                          name == jgit_NewNativeString(e.d_name, strlen(e.d_name))
                          d == [null |-> FALSE, name |-> name, type |-> dtype(e)]
                      IN
                        /\ (o = "grow_fail") => needGrow
                        \* a trap ends the process; NewObjectArray makes no
                        \* array of a negative length
                        /\ ~(needGrow /\ g.trap)
                        /\ (needGrow /\ g.val < 0) => (o = "grow_fail")
                        /\ CASE o = "grow_fail" ->
                                  \* resize_array returns NULL (lines 145-147)
                                  /\ res' = NullArr
                                  /\ UNCHANGED <<res_cap, res_cnt>>
                                  /\ exc' \in AfterRaise(exc, HostOOM)
                                  /\ log' = log \o <<"alloc_fail", RaiseEv>>
                                  /\ pc' = "fail"
                             [] o = "obj_fail" ->
                                  \* jgit_NewNativeString or AllocObject
                                  \* returns NULL (lines 151-157)
                                  /\ res' = res1 /\ res_cap' = cap1
                                  /\ UNCHANGED res_cnt
                                  /\ exc' \in AfterRaise(exc, HostOOM)
                                  /\ log' = log1 \o <<"alloc_fail", RaiseEv>>
                                  /\ pc' = "fail"
                             [] OTHER ->
                                  /\ res' = SetObjectArrayElement(res1, res_cnt, d)
                                  /\ res_cap' = cap1
                                  /\ res_cnt' = res_cnt + 1
                                  /\ exc' = exc
                                  /\ log' = log1
                                  /\ pc' = "loop"
    /\ UNCHANGED <<op, result, path, path_str,
                   dirents, dirp, entryp, entry_sz>>
    /\ reg' = RegAfterUse(reg, {"DirEnt", "DirEnt.name", "DirEnt.type"})

\* One pass of the loop of lines 125-165 on the two counters alone, for the
\* counts at which a collection is too large to be kept entry by entry;
\* dirents holds the entries the stream has yet to deliver, all plain.
CapStore ==
    /\ op = "list" /\ pc = "loop"
    /\ IF dirpos = Len(dirents)
         THEN \* end of the stream
              /\ pc' = "finish"
              /\ UNCHANGED <<dirpos, res_cap, res_cnt>>
         ELSE /\ dirpos' = dirpos + 1
              /\ \E g \in GrownCap(res_cap) :
                   IF res_cnt = res_cap
                     THEN IF g.trap
                            THEN \* the process is terminated
                                 /\ pc' = "abort"
                                 /\ UNCHANGED <<res_cap, res_cnt>>
                            ELSE \E ok \in BOOLEAN :
                                   IF ok /\ g.val >= 0
                                     THEN /\ res_cap' = g.val
                                          /\ res_cnt' = res_cnt + 1
                                          /\ pc' = "loop"
                                     ELSE \* resize_array returns NULL
                                          /\ pc' = "fail"
                                          /\ UNCHANGED <<res_cap, res_cnt>>
                     ELSE /\ res_cnt' = res_cnt + 1
                          /\ pc' = "loop"
                          /\ UNCHANGED res_cap
    /\ UNCHANGED <<op, errno, exc, result, log, reg, path, path_str,
                   dirents, dirp, entryp, entry_sz, res, status>>
    /\ UNCHANGED <<linkVars, statVars, loadVars, worldVars>>

\* lines 167-173: the successful exit
ListFinish ==
    /\ UNCHANGED <<linkVars, statVars, loadVars, worldVars>>
    /\ op = "list" /\ pc = "finish"
    /\ LET log1 == log \o <<"closedir", "free_path", "free_entry">> IN
         IF res_cnt # res_cap
           THEN \E ok \in BOOLEAN :
                  IF ok
                    THEN /\ result' = [null |-> FALSE,
                                       val |-> resize_array(res, res_cnt, res_cnt).a]
                         /\ exc' = exc
                         /\ log' = Append(log1, "shrink")
                    ELSE /\ result' = NullRes
                         /\ exc' \in AfterRaise(exc, HostOOM)
                         /\ log' = log1 \o <<"alloc_fail", RaiseEv>>
           ELSE /\ result' = [null |-> res.null, val |-> res.a]
                /\ exc' = exc
                /\ log' = log1
    /\ pc' = "done"
    /\ dirp' = "NULL" /\ entryp' = "NULL" /\ entry_sz' = 0
    /\ res' = NullArr /\ res_cap' = 0 /\ res_cnt' = 0
    /\ UNCHANGED <<op, errno, path, path_str, dirents, dirpos, status>>
    /\ reg' = RegAfterUse(reg, {"DirEnt"})

\* the events of lines 177-182
ListCleanup_NoClose(d, p, e) ==
    (IF p # NULLPTR THEN <<"free_path">> ELSE <<>>)
    \o (IF e # "NULL" THEN <<"free_entry">> ELSE <<>>)

ListCleanup(d, p, e) ==
    (IF d # "NULL" THEN <<"closedir">> ELSE <<>>)
    \o (IF p # NULLPTR THEN <<"free_path">> ELSE <<>>)
    \o (IF e # "NULL" THEN <<"free_entry">> ELSE <<>>)

ListFailEvents_CleanupFirst(d, p, e, rv) ==
    ListCleanup(d, p, e) \o <<"throw_errno", rv>>

\* the events of the fail label in program order: line 176, then 177-182
ListFailEvents(d, p, e, rv) ==
    <<"throw_errno", rv>> \o ListCleanup(d, p, e)

\* lines 175-183: the fail label
ListFail ==
    /\ UNCHANGED <<linkVars, statVars, loadVars, worldVars>>
    /\ op = "list" /\ pc = "fail"
    /\ exc' \in AfterRaise(exc, jgit_ThrowErrno(errno, path_str))
    /\ log' = log \o ListFailEvents(dirp, path_str, entryp, RaiseEv)
    /\ result' = NullRes
    /\ pc' = "done"
    /\ dirp' = "NULL" /\ entryp' = "NULL" /\ entry_sz' = 0
    /\ res' = NullArr /\ res_cap' = 0 /\ res_cnt' = 0
    /\ UNCHANGED <<op, errno, path, path_str, dirents, dirpos, status>>
    /\ reg' = RegAfterUse(reg, ErrnoHandles)

\* the call returns to the host; the host consumes result and exception
Return ==
    /\ op # "idle" /\ pc = "done"
    /\ op' = "idle" /\ pc' = "idle"
    /\ exc' = NoExc /\ result' = NullRes /\ log' = <<>>
    /\ path' = <<>> /\ path_str' = NULLPTR
    /\ ListLocalsReset
    /\ target_str' = NULLPTR /\ buf_sz' = ZeroSize /\ buf_ptr' = "NULL"
    /\ buf' = <<>> /\ n' = ZeroSize
    /\ st' = NoStat
    /\ ldmod' = "none" /\ ldpos' = 0
    /\ UNCHANGED <<errno, reg, links, target, worldVars>>

(***************************** threads *************************************)
\* the automatic variables of the running list call, with the errno and the
\* pending exception of its thread and the stream its dirp points to
ThisThread ==
    [op |-> op, pc |-> pc, errno |-> errno, exc |-> exc,
     result |-> result, log |-> log, path |-> path, path_str |-> path_str,
     dirents |-> dirents, dirpos |-> dirpos, dirp |-> dirp, entryp |-> entryp,
     entry_sz |-> entry_sz, res |-> res, res_cap |-> res_cap,
     res_cnt |-> res_cnt, status |-> status]

Resumed_SharedPosition(saved, running) ==
    [saved EXCEPT !.dirpos = running.dirpos]

\* what a thread finds when it runs again after another thread ran: every
\* variable of list is automatic and readdir_r keeps the position in the
\* stream of the caller's own dirp, so it finds what it left
Resumed(saved, running) == saved

\* the scheduler takes the processor from the running thread and gives it
\* to the other one
Switch ==
    /\ LET r == Resumed(other, ThisThread) IN
         /\ other' = ThisThread
         /\ op' = r.op /\ pc' = r.pc /\ errno' = r.errno /\ exc' = r.exc
         /\ result' = r.result /\ log' = r.log
         /\ path' = r.path /\ path_str' = r.path_str
         /\ dirents' = r.dirents /\ dirpos' = r.dirpos /\ dirp' = r.dirp
         /\ entryp' = r.entryp /\ entry_sz' = r.entry_sz
         /\ res' = r.res /\ res_cap' = r.res_cap /\ res_cnt' = r.res_cnt
         /\ status' = r.status
    /\ UNCHANGED <<reg, disk, linkVars, statVars, loadVars>>

(***************************** symlink.c ***********************************)
\* sizeof(small_buf)
SmallBufSize == 128

\* content of a buffer nothing was written to yet
Uninit == -1

\* The model keeps the first BufWindow bytes of a read buffer; no target
\* a link of the modelled file system holds is longer than that.
BufWindow == 1024
Visible(sz) == IF SizeIsSmall(sz) /\ SizeVal(sz) <= BufWindow THEN SizeVal(sz)
               ELSE BufWindow
FreshBuf(sz) == [i \in 1..Visible(sz) |-> Uninit]

\* malloc(sz) after free(old) (lines 73-78): the content of the new block is
\* indeterminate; it may be the block just freed, still holding its bytes
HeapContents(old, sz) ==
    { FreshBuf(sz),
      [i \in 1..Visible(sz) |-> IF i <= Len(old) THEN old[i] ELSE Uninit] }

Min(a, b) == IF a < b THEN a ELSE b

\* stands for the target of a link whose reads fill every buffer that is
\* passed, whatever its size
EndlessTarget == << -2 >>

\* readlink(2) on an existing link with target t: at most sz bytes are
\* copied to the front of the buffer, no terminator is written
readlink(t, b, sz) ==
    IF t = EndlessTarget
      THEN [n |-> sz, buf |-> [i \in DOMAIN b |-> CH_a]]
      ELSE LET cnt == IF SizeIsSmall(sz) THEN Min(Len(t), SizeVal(sz)) ELSE Len(t)
           IN [n |-> ToSize(cnt),
               buf |-> [i \in DOMAIN b |-> IF i <= cnt THEN t[i] ELSE b[i]]]

\* targets of one repeated byte, around the sizes of the first two buffers
RaceLens == {3, 128, 200, 256}
RaceTargets == { [i \in 1..len |-> c] : len \in RaceLens, c \in {CH_a, CH_d} }

ReadlinkErrnos == {EACCES, ENOTDIR, EIO}
SymlinkErrnos == {EACCES}

NeedRetry_Never(cnt, sz) == SizeLt(sz, cnt)

\* line 66: the read filled the buffer and may be truncated; n is compared
\* as a size_t
NeedRetry(cnt, sz) == cnt = sz

Doubled_Tripled(sz) == SizeAdd(sz, SizeAdd(sz, sz))

\* line 67
Doubled(sz) == SizeAdd(sz, sz)

SizeWraps_Never(sz, dbl) == FALSE

\* line 68: the doubled size wrapped around
SizeWraps(sz, dbl) == SizeLt(dbl, sz)

ReturnedString_WholeBuf(b, cnt, sz) == jgit_NewNativeString(b, SizeVal(sz))

ReturnedString_ToTerminator(b, cnt, sz) == jgit_NewNativeString(b, strlen(b))

\* line 93: the string made of the first n bytes of the buffer
ReturnedString(b, cnt, sz) == jgit_NewNativeString(b, SizeVal(cnt))

RlCleanup_KeepHeap(bp) == <<"free_path">>

\* lines 95-97: the events of the done label
RlCleanup(bp) ==
    (IF bp # "NULL" /\ bp # "small" THEN <<"free_heap">> ELSE <<>>)
    \o <<"free_path">>

\* lines 53-57
RlCall ==
    /\ op = "idle"
    /\ op' = "readlink" /\ pc' = "marshal"
    /\ \E p \in Paths : path' = p
    /\ path_str' = NULLPTR
    /\ buf_sz' = ToSize(SmallBufSize) /\ buf_ptr' = "small"
    /\ buf' = FreshBuf(ToSize(SmallBufSize))
    /\ n' = ZeroSize
    /\ result' = NullRes /\ log' = <<>>
    /\ UNCHANGED <<errno, exc, reg, links, target, target_str>>
    /\ UNCHANGED <<listVars, statVars, loadVars, worldVars>>

\* lines 60-62
RlMarshal ==
    /\ op = "readlink" /\ pc = "marshal"
    /\ \E o \in GSN_Outcomes :
         LET g == jgit_GetStringNative(path, o, errno) IN
           /\ path_str' = g.r
           /\ errno' = g.errno
           /\ IF g.r = NULLPTR
                THEN /\ exc' \in AfterRaise(exc, g.raised)
                     /\ log' = log \o MarshalFailEvents(o, RaiseEv)
                     /\ pc' = "done"
                ELSE /\ exc' = exc
                     /\ log' = Append(log, "malloc_path")
                     /\ pc' = "read"
    /\ UNCHANGED <<op, result, path, linkVars>>
    /\ UNCHANGED <<listVars, statVars, loadVars, worldVars>>
    /\ reg' = RegAfterUse(reg, {"String.getBytes", "OutOfMemory"})

\* lines 64-99: one read attempt and what follows it
RlRead ==
    /\ op = "readlink" /\ pc = "read"
    /\ LET p == CStr(path_str)
           logr == Append(log, "read")
       IN
       \/ \* readlink fails: n is -1, which is not buf_sz; lines 88-91
          /\ ~NeedRetry(MinusOne, buf_sz) /\ IsNegative(MinusOne)
          /\ \E e \in (IF links[p] = <<>> THEN {ENOENT} ELSE ReadlinkErrnos) :
               /\ errno' = e
               /\ exc' \in AfterRaise(exc, jgit_ThrowErrno(e, path_str))
          /\ n' = MinusOne
          /\ log' = logr \o <<"throw_errno", RaiseEv>> \o RlCleanup(buf_ptr)
          /\ result' = NullRes
          /\ pc' = "done"
          /\ UNCHANGED <<buf, buf_sz, buf_ptr>>
       \/ /\ links[p] # <<>>
          /\ LET rd == readlink(links[p], buf, buf_sz)
                 d2 == Doubled(buf_sz)
                 log1 == IF buf_ptr # "small" THEN Append(logr, "free_heap") ELSE logr
             IN
             /\ n' = rd.n
             /\ IF NeedRetry(rd.n, buf_sz)
                  THEN IF SizeWraps(buf_sz, d2)
                         THEN \* lines 68-71
                              /\ exc' \in AfterRaise(exc, jgit_ThrowOutOfMemory)
                              /\ log' = Append(logr, RaiseEv) \o RlCleanup(buf_ptr)
                              /\ result' = NullRes
                              /\ pc' = "done"
                              /\ buf' = rd.buf
                              /\ UNCHANGED <<errno, buf_sz, buf_ptr>>
                         ELSE \E ok \in BOOLEAN :
                                IF ok
                                  THEN \* lines 73-85
                                       /\ buf_ptr' = "heap"
                                       /\ buf' \in HeapContents(rd.buf, d2)
                                       /\ buf_sz' = d2
                                       /\ log' = Append(log1, "malloc_heap")
                                       /\ pc' = "read"
                                       /\ UNCHANGED <<errno, exc, result>>
                                  ELSE \* lines 79-82
                                       /\ buf_ptr' = "NULL"
                                       /\ buf' = <<>>
                                       /\ errno' = ENOMEM
                                       /\ exc' \in AfterRaise(exc, jgit_ThrowOutOfMemory)
                                       /\ log' = log1 \o <<"alloc_fail", RaiseEv>>
                                                    \o RlCleanup("NULL")
                                       /\ result' = NullRes
                                       /\ pc' = "done"
                                       /\ UNCHANGED buf_sz
                  ELSE \* line 93
                       /\ buf' = rd.buf
                       /\ \E ok \in BOOLEAN :
                            IF ok
                              THEN /\ result' = [null |-> FALSE,
                                                 val |-> ReturnedString(rd.buf, rd.n, buf_sz)]
                                   /\ exc' = exc
                                   /\ log' = logr \o RlCleanup(buf_ptr)
                              ELSE /\ result' = NullRes
                                   /\ exc' \in AfterRaise(exc, HostOOM)
                                   /\ log' = logr \o <<"alloc_fail", RaiseEv>>
                                                \o RlCleanup(buf_ptr)
                       /\ pc' = "done"
                       /\ UNCHANGED <<errno, buf_sz, buf_ptr>>
    /\ UNCHANGED <<op, path, path_str, links, target, target_str>>
    /\ UNCHANGED <<listVars, statVars, loadVars, worldVars>>
    /\ reg' = RegAfterUse(reg, ErrnoHandles \cup {"OutOfMemory"})

\* lines 105-106
SymCall ==
    /\ op = "idle"
    /\ op' = "symlink" /\ pc' = "marshal"
    /\ \E p \in Paths : path' = p
    /\ path_str' = NULLPTR /\ target_str' = NULLPTR
    /\ result' = NullRes /\ log' = <<>>
    /\ UNCHANGED <<errno, exc, reg, links, target, buf_sz, buf_ptr, buf, n>>
    /\ UNCHANGED <<listVars, statVars, loadVars, worldVars>>

\* lines 108-110
SymMarshalPath ==
    /\ op = "symlink" /\ pc = "marshal"
    /\ \E o \in GSN_Outcomes :
         LET g == jgit_GetStringNative(path, o, errno) IN
           /\ path_str' = g.r
           /\ errno' = g.errno
           /\ IF g.r = NULLPTR
                THEN /\ exc' \in AfterRaise(exc, g.raised)
                     /\ log' = log \o MarshalFailEvents(o, RaiseEv)
                     /\ pc' = "done"
                ELSE /\ exc' = exc
                     /\ log' = Append(log, "malloc_path")
                     /\ pc' = "marshal2"
    /\ UNCHANGED <<op, result, path, linkVars>>
    /\ UNCHANGED <<listVars, statVars, loadVars, worldVars>>
    /\ reg' = RegAfterUse(reg, {"String.getBytes", "OutOfMemory"})

\* lines 112-116
SymMarshalTarget ==
    /\ op = "symlink" /\ pc = "marshal2"
    /\ \E o \in GSN_Outcomes :
         LET g == jgit_GetStringNative(target, o, errno) IN
           /\ target_str' = g.r
           /\ errno' = g.errno
           /\ IF g.r = NULLPTR
                THEN /\ exc' \in AfterRaise(exc, g.raised)
                     /\ log' = log \o MarshalFailEvents(o, RaiseEv) \o <<"free_path">>
                     /\ pc' = "done"
                ELSE /\ exc' = exc
                     /\ log' = Append(log, "malloc_target")
                     /\ pc' = "create"
    /\ UNCHANGED <<op, result, path, path_str,
                   links, target, buf_sz, buf_ptr, buf, n>>
    /\ UNCHANGED <<listVars, statVars, loadVars, worldVars>>
    /\ reg' = RegAfterUse(reg, {"String.getBytes", "OutOfMemory"})

\* lines 118-122
SymCreate ==
    /\ op = "symlink" /\ pc = "create"
    /\ LET p == CStr(path_str)
           t == CStr(target_str)
           errs == IF t = <<>> THEN {ENOENT}
                   ELSE IF links[p] # <<>> THEN {EEXIST}
                   ELSE SymlinkErrnos
       IN
       \/ /\ t # <<>> /\ links[p] = <<>>
          /\ links' = [links EXCEPT ![p] = t]
          /\ log' = log \o <<"free_target", "free_path">>
          /\ UNCHANGED <<errno, exc>>
       \/ /\ \E e \in errs :
               /\ errno' = e
               /\ exc' \in AfterRaise(exc, jgit_ThrowErrno(e, path_str))
          /\ log' = log \o <<"throw_errno", RaiseEv, "free_target", "free_path">>
          /\ UNCHANGED links
    /\ pc' = "done"
    /\ UNCHANGED <<op, result, path, path_str,
                   target, target_str, buf_sz, buf_ptr, buf, n>>
    /\ UNCHANGED <<listVars, statVars, loadVars, worldVars>>
    /\ reg' = RegAfterUse(reg, ErrnoHandles)

(***************************** lstat.c *************************************)
\* Native integers are little-endian sequences of 16-bit limbs: two limbs
\* for a 32-bit field, four for a 64-bit field.

ToJint_Saturated(x) ==
    IF \E i \in 3..Len(x) : x[i] # 0 THEN JintMax
    ELSE IF x[2] >= SignLimb THEN (x[2] - LimbBase) * LimbBase + x[1]
    ELSE x[2] * LimbBase + x[1]

\* (jint) x: the low 32 bits of x read as a signed 32-bit integer
ToJint(x) ==
    IF x[2] >= SignLimb THEN (x[2] - LimbBase) * LimbBase + x[1]
    ELSE x[2] * LimbBase + x[1]

\* (jlong) x: all 64 bits of x (a 32-bit unsigned x is zero-extended)
ToJlong(x) == IF Len(x) = 4 THEN x ELSE x \o <<0, 0>>

\* lines 113-129: the record built from one struct stat
MakeLStat_InoFromDev(b) ==
    [ctime |-> ToJint(b.st_ctime), mtime |-> ToJint(b.st_mtime),
     ctime_nsec |-> ToJint(b.st_ctimensec), mtime_nsec |-> ToJint(b.st_mtimensec),
     dev |-> ToJint(b.st_dev), ino |-> ToJint(b.st_dev),
     mode |-> ToJint(b.st_mode), uid |-> ToJint(b.st_uid),
     gid |-> ToJint(b.st_gid), size |-> ToJlong(b.st_size)]

MakeLStat(b) ==
    [ctime |-> ToJint(b.st_ctime), mtime |-> ToJint(b.st_mtime),
     ctime_nsec |-> ToJint(b.st_ctimensec), mtime_nsec |-> ToJint(b.st_mtimensec),
     dev |-> ToJint(b.st_dev), ino |-> ToJint(b.st_ino),
     mode |-> ToJint(b.st_mode), uid |-> ToJint(b.st_uid),
     gid |-> ToJint(b.st_gid), size |-> ToJlong(b.st_size)]

\* lines 136-156: the class and the message chosen for an errno
LstatErrClass(e) ==
    CASE e = EACCES  -> "AccessDenied"
      [] e = ENOENT  -> "NoSuchFile"
      [] e = ENOTDIR -> "NotDirectory"
      [] OTHER       -> "LStatException"

LstatErrMsg(e, p) ==
    IF e \in {EACCES, ENOENT, ENOTDIR} THEN p ELSE strerror(e)

\* ThrowNew reads the path characters when they are the message
DetailReadEvents(e) ==
    IF e \in {EACCES, ENOENT, ENOTDIR} THEN <<"read_chars">> ELSE <<>>

\* the error FindClass leaves pending when it does not find the class
HostNoClass == [kind |-> "NoClassDefFound", hasMsg |-> FALSE, msg |-> <<>>]

\* sample values of the native fields
Values64 == { <<a, b, c, d>> : a \in {0, 1, 65535}, b \in {0, 32767, 32768},
                               c \in {0, 1}, d \in {0, 32768} }
Values32 == { <<a, b>> : a \in {0, 1, 65535}, b \in {0, 32767, 32768, 65535} }

Fields64 == {"st_dev", "st_ino", "st_size", "st_ctime", "st_mtime",
             "st_ctimensec", "st_mtimensec"}
Fields32 == {"st_mode", "st_uid", "st_gid"}

BaseStat ==
    [st_dev |-> <<2049, 0, 0, 0>>, st_ino |-> <<7, 1, 0, 0>>,
     st_mode |-> <<33188, 0>>, st_uid |-> <<1000, 0>>, st_gid |-> <<100, 0>>,
     st_size |-> <<4096, 0, 0, 0>>,
     st_ctime |-> <<11, 25000, 0, 0>>, st_mtime |-> <<12, 25000, 0, 0>>,
     st_ctimensec |-> <<13, 14, 0, 0>>, st_mtimensec |-> <<15, 16, 0, 0>>]

\* the stat results lstat may deliver: every field over its sample values
StatSet ==
    {[BaseStat EXCEPT ![f] = v] : f \in Fields64, v \in Values64}
    \cup {[BaseStat EXCEPT ![f] = v] : f \in Fields32, v \in Values32}

LstatErrnos == {EACCES, ENOENT, ENOTDIR, EIO}

\* lines 102-104
LsCall ==
    /\ op = "idle"
    /\ op' = "lstat" /\ pc' = "chars"
    /\ \E p \in Paths : path' = p
    /\ path_str' = NULLPTR
    /\ st' = NoStat
    /\ result' = NullRes /\ log' = <<>>
    /\ UNCHANGED <<errno, exc, reg>>
    /\ UNCHANGED <<listVars, linkVars, loadVars, worldVars>>

\* line 106: GetStringUTFChars; its result is not tested
LsChars ==
    /\ op = "lstat" /\ pc = "chars"
    /\ \/ /\ path_str' = Append(path, NUL)
          /\ log' = Append(log, "get_chars")
          /\ exc' = exc
       \/ /\ path_str' = NULLPTR
          /\ exc' \in AfterRaise(exc, HostOOM)
          /\ log' = log \o <<"alloc_fail", RaiseEv>>
    /\ pc' = "stat"
    /\ UNCHANGED <<op, errno, result, reg, path, st>>
    /\ UNCHANGED <<listVars, linkVars, loadVars, worldVars>>

\* lines 108-165
LsStat ==
    /\ op = "lstat" /\ pc = "stat"
    /\ \/ \* lstat succeeds, lines 109-129
          /\ path_str # NULLPTR
          /\ \E b \in StatSet : st' = b
          /\ errno' = errno
          /\ \E ok \in BOOLEAN :
               IF ok
                 THEN /\ result' = [null |-> FALSE, val |-> MakeLStat(st')]
                      /\ exc' = exc
                      /\ log' = log \o <<"read_chars", "lstat_ok", "release_chars">>
                 ELSE /\ result' = NullRes
                      /\ exc' \in AfterRaise(exc, HostOOM)
                      /\ log' = log \o <<"read_chars", "lstat_ok", "alloc_fail",
                                         RaiseEv, "release_chars">>
       \/ \* lstat fails, lines 131-161
          /\ st' = NoStat
          /\ \E e \in (IF path_str = NULLPTR THEN {EFAULT} ELSE LstatErrnos) :
               /\ errno' = e
               /\ \E found \in BOOLEAN :
                    IF found
                      THEN /\ exc' \in AfterRaise(exc,
                                  NewExc(LstatErrClass(e), LstatErrMsg(e, path_str)))
                           /\ log' = log \o <<"read_chars", "lstat_fail">>
                                         \o DetailReadEvents(e)
                                         \o <<RaiseEv, "release_chars">>
                      ELSE /\ exc' \in AfterRaise(exc, HostNoClass)
                           /\ log' = log \o <<"read_chars", "lstat_fail",
                                              RaiseEv, "release_chars">>
          /\ result' = NullRes
    /\ pc' = "done"
    /\ UNCHANGED <<op, path, path_str>>
    /\ UNCHANGED <<listVars, linkVars, loadVars, worldVars>>
    /\ reg' = RegAfterUse(reg, Range(LStatHandles))

\* another process replaces the target of an existing link
Relink ==
    /\ \E p \in Paths, t \in RaceTargets :
         /\ links[p] # <<>>
         /\ links[p] # t
         /\ links' = [links EXCEPT ![p] = t]
    /\ UNCHANGED <<commonVars, target, target_str, buf_sz, buf_ptr, buf, n>>
    /\ UNCHANGED <<listVars, statVars, loadVars, worldVars>>

(************************ jgitnative/lstat.c *******************************)
\* lines 74-95: the eleven elements written from one struct stat; the size
\* is split into its high and its low half
MakeIntArray(b) ==
    << ToJint(b.st_mtime), ToJint(b.st_mtimensec),
       ToJint(b.st_ctime), ToJint(b.st_ctimensec),
       ToJint(b.st_dev), ToJint(b.st_ino), ToJint(b.st_mode),
       ToJint(b.st_uid), ToJint(b.st_gid),
       ToJint(SubSeq(b.st_size, 3, 4)), ToJint(b.st_size) >>

\* NewIntArray(env, 11): the elements start as zero
NewIntArray == [i \in 1..11 |-> 0]

\* What a read of released path characters delivers is undefined: the bytes
\* still found there, or whatever the allocator has put in their place.
FreedChars(p) == {p, <<NUL>>}

\* lines 103-125: the message chosen for an errno, read at line 132 after
\* the release of line 127
OldReasons(e, p) ==
    IF e \in {EACCES, ENOENT, ENOTDIR} THEN FreedChars(p) ELSE {strerror(e)}

\* the events of lines 72, 127, 132 and 134 when the class was found
OldFailEvents(e, rv) ==
    <<"read_chars", "lstat_fail", "release_chars">>
      \o DetailReadEvents(e) \o <<rv, "release_chars">>

\* lines 66-68
OldCall ==
    /\ op = "idle"
    /\ op' = "lstat_old" /\ pc' = "chars"
    /\ \E p \in Paths : path' = p
    /\ path_str' = NULLPTR
    /\ st' = NoStat
    /\ result' = NullRes /\ log' = <<>>
    /\ UNCHANGED <<errno, exc, reg>>
    /\ UNCHANGED <<listVars, linkVars, loadVars, worldVars>>

\* line 69: GetStringUTFChars; its result is not tested
OldChars ==
    /\ op = "lstat_old" /\ pc = "chars"
    /\ \/ /\ path_str' = Append(path, NUL)
          /\ log' = Append(log, "get_chars")
          /\ exc' = exc
       \/ /\ path_str' = NULLPTR
          /\ exc' \in AfterRaise(exc, HostOOM)
          /\ log' = log \o <<"alloc_fail", RaiseEv>>
    /\ pc' = "stat"
    /\ UNCHANGED <<op, errno, result, reg, path, st>>
    /\ UNCHANGED <<listVars, linkVars, loadVars, worldVars>>

\* lines 71-136
OldStat ==
    /\ op = "lstat_old" /\ pc = "stat"
    /\ \E arr_ok \in BOOLEAN :
       \E excA \in (IF arr_ok THEN {exc} ELSE AfterRaise(exc, HostOOM)) :
         LET logA == IF arr_ok THEN log ELSE log \o <<"alloc_fail", RaiseEv>>
             rv == IF excA = NoExc THEN "raise" ELSE "reraise"
             ji_res == IF arr_ok THEN [null |-> FALSE, val |-> NewIntArray]
                       ELSE NullRes
         IN
         \/ \* lstat succeeds, lines 73-97 and 134-136
            /\ path_str # NULLPTR
            /\ \E b \in StatSet : st' = b
            /\ errno' = errno
            /\ exc' = excA
            /\ \E elems_ok \in BOOLEAN :
                 IF arr_ok /\ elems_ok
                   THEN /\ result' = [null |-> FALSE, val |-> MakeIntArray(st')]
                        /\ log' = logA \o <<"read_chars", "lstat_ok", "release_chars">>
                        /\ pc' = "done"
                   ELSE \* GetIntArrayElements of no array, or the stores
                        \* through the NULL it returned: the process is
                        \* terminated
                        /\ result' = NullRes
                        /\ log' = logA \o <<"read_chars", "lstat_ok">>
                        /\ pc' = "abort"
         \/ \* lstat fails, lines 99-136
            /\ st' = NoStat
            /\ \E e \in (IF path_str = NULLPTR THEN {EFAULT} ELSE LstatErrnos) :
                 /\ errno' = e
                 /\ \E found \in BOOLEAN :
                      IF found
                        THEN /\ \E m \in OldReasons(e, path_str) :
                                  exc' \in AfterRaise(excA, NewExc(LstatErrClass(e), m))
                             /\ log' = logA \o OldFailEvents(e, rv)
                             /\ result' = ji_res
                             \* a second release of the same characters is
                             \* undefined: the call returns or the process
                             \* is terminated
                             /\ pc' \in {"done", "abort"}
                        ELSE \* lines 128-131
                             /\ exc' \in AfterRaise(excA, HostNoClass)
                             /\ log' = logA \o <<"read_chars", "lstat_fail", rv,
                                                 "release_chars">>
                             /\ result' = NullRes
                             /\ pc' = "done"
    /\ UNCHANGED <<op, reg, path, path_str>>
    /\ UNCHANGED <<listVars, linkVars, loadVars, worldVars>>

(********************** module load and unload *****************************)
Modules == {"util", "list", "lstat"}
Handles(m) == CASE m = "util" -> UtilHandles
                [] m = "list" -> ListHandles
                [] OTHER      -> LStatHandles

\* the handles that hold a class reference
ClassHandles(m) ==
    CASE m = "util" -> {"AccessDenied", "NoSuchFile", "NotDirectory",
                        "NativeException", "OutOfMemory", "String"}
      [] m = "list" -> {"DirEnt"}
      [] OTHER      -> {"LStat"}

\* JGIT_DELETE_CLASS on every class of util.c and list.c; jgit_lstat_OnUnload
\* deletes the reference and leaves the pointer as it is
Unloaded(r, m) ==
    [h \in DOMAIN r |-> IF m # "lstat" /\ h \in ClassHandles(m) THEN FALSE ELSE r[h]]

\* the host loads the library: XXX_OnLoad is entered with an empty registry
LoadCall ==
    /\ op = "idle"
    /\ \E m \in Modules :
         /\ \A h \in Range(Handles(m)) : ~reg[h]
         /\ ldmod' = m
    /\ op' = "load" /\ pc' = "resolve"
    /\ ldpos' = 0
    /\ result' = NullRes /\ log' = <<>>
    /\ UNCHANGED <<errno, exc, reg, path, path_str>>
    /\ UNCHANGED <<listVars, linkVars, statVars, worldVars>>

\* one JGIT_CLASS / JGIT_METHOD / JGIT_FIELD of the running OnLoad, or its
\* final return 0
LoadStep ==
    /\ op = "load" /\ pc = "resolve"
    /\ LET hs == Handles(ldmod) IN
         IF ldpos = Len(hs)
           THEN /\ result' = [null |-> FALSE, val |-> 0]
                /\ pc' = "done"
                /\ UNCHANGED <<reg, ldpos>>
           ELSE \/ \* resolved: the handle is stored
                   /\ reg' = [reg EXCEPT ![hs[ldpos + 1]] = TRUE]
                   /\ ldpos' = ldpos + 1
                   /\ UNCHANGED <<result, pc>>
                \/ \* not resolved: ExceptionClear; return -1
                   /\ result' = [null |-> FALSE, val |-> -1]
                   /\ pc' = "done"
                   /\ UNCHANGED <<reg, ldpos>>
    /\ UNCHANGED <<op, errno, exc, log, path, path_str, ldmod>>
    /\ UNCHANGED <<listVars, linkVars, statVars, worldVars>>

\* XXX_OnUnload
Unload ==
    /\ op = "idle"
    /\ \E m \in Modules :
         /\ \E h \in ClassHandles(m) : reg[h]
         /\ ldmod' = m
         /\ reg' = Unloaded(reg, m)
    /\ op' = "unload" /\ pc' = "done"
    /\ UNCHANGED <<errno, exc, result, log, path, path_str, ldpos>>
    /\ UNCHANGED <<listVars, linkVars, statVars, worldVars>>

(************************ specifications ***********************************)
RegLoaded == [h \in AllHandles |-> TRUE]

InitCommon ==
    /\ op = "idle" /\ pc = "idle"
    /\ errno = 0 /\ exc = NoExc /\ result = NullRes /\ log = <<>>
    /\ path = <<>> /\ path_str = NULLPTR
    /\ ListLocalsInit
    /\ target_str = NULLPTR /\ buf_sz = ZeroSize /\ buf_ptr = "NULL"
    /\ buf = <<>> /\ n = ZeroSize
    /\ st = NoStat
    /\ ldmod = "none" /\ ldpos = 0

\* a thread that is not inside a call
IdleThread ==
    [op |-> "idle", pc |-> "idle", errno |-> 0, exc |-> NoExc,
     result |-> NullRes, log |-> <<>>, path |-> <<>>, path_str |-> NULLPTR,
     dirents |-> <<>>, dirpos |-> 0, dirp |-> "NULL", entryp |-> "NULL",
     entry_sz |-> 0, res |-> NullArr, res_cap |-> 0, res_cnt |-> 0,
     status |-> 0]

\* no directory is listed and one thread calls
NoDisk == <<>>
OneThread == other = IdleThread

NoLinks == [p \in Paths |-> <<>>]

InitList ==
    /\ InitCommon /\ reg = RegLoaded /\ links = NoLinks /\ target = <<>>
    /\ disk \in [ListPaths -> Dirs] /\ OneThread

NextList ==
    \/ ListCall \/ ListMarshal \/ ListAllocEntry \/ ListAllocArray
    \/ ListOpen \/ ListLoop \/ ListFinish \/ ListFail \/ Return

SpecList == InitList /\ [][NextList]_vars

\* two threads list two small directories, or both the same one
ConcDirD ==
    << Dirent(<<DOT>>, DT_DIR), Dirent(<<DOT, DOT>>, DT_DIR),
       Dirent(<<CH_f>>, DT_REG), Dirent(<<DOT, CH_a>>, DT_LNK) >>
ConcDirA ==
    << Dirent(<<CH_a>>, DT_DIR), Dirent(<<DOT, DOT>>, DT_DIR) >>
ConcDisk == [p \in Paths |-> IF p = <<SLASH, CH_d>> THEN ConcDirD ELSE ConcDirA]

InitConc ==
    /\ InitCommon /\ reg = RegLoaded /\ links = NoLinks /\ target = <<>>
    /\ disk = ConcDisk /\ OneThread

NextConc == NextList \/ Switch

SpecConc == InitConc /\ [][NextConc]_vars

\* the strings a run may pass as the target of createLink
MaxTargetLen == 260
PlainTarget(len) == [i \in 1..len |-> 33 + (i % 90)]
NulTarget(len) == [PlainTarget(len) EXCEPT ![(len + 1) \div 2] = NUL]
NulLens == {1, 2, 3, 130}
Targets == {<<>>} \cup {PlainTarget(len) : len \in 1..MaxTargetLen}
                  \cup {NulTarget(len) : len \in NulLens}

InitLink ==
    /\ InitCommon /\ reg = RegLoaded /\ links = NoLinks /\ target \in Targets
    /\ disk = NoDisk /\ OneThread

NextLink ==
    \/ SymCall \/ SymMarshalPath \/ SymMarshalTarget \/ SymCreate
    \/ RlCall \/ RlMarshal \/ RlRead \/ Return

SpecLink == InitLink /\ [][NextLink]_vars

InitStat ==
    /\ InitCommon /\ reg = RegLoaded /\ links = NoLinks /\ target = <<>>
    /\ disk = NoDisk /\ OneThread

NextStat == LsCall \/ LsChars \/ LsStat \/ Return

SpecStat == InitStat /\ [][NextStat]_vars

\* both variants of probe
NextProbes == NextStat \/ OldCall \/ OldChars \/ OldStat

SpecProbes == InitStat /\ [][NextProbes]_vars

\* every boundary operation, called in any order after a successful load
FrameTarget == PlainTarget(130)

InitFrame ==
    /\ InitCommon /\ reg = RegLoaded /\ links = NoLinks /\ target = FrameTarget
    /\ disk = ConcDisk /\ OneThread

NextFrame ==
    \/ ListCall \/ ListMarshal \/ ListAllocEntry \/ ListAllocArray
    \/ ListOpen \/ ListLoop \/ ListFinish \/ ListFail
    \/ SymCall \/ SymMarshalPath \/ SymMarshalTarget \/ SymCreate
    \/ RlCall \/ RlMarshal \/ RlRead
    \/ LsCall \/ LsChars \/ LsStat \/ Return

SpecFrame == InitFrame /\ [][NextFrame]_vars

\* readTarget on a link whose reads fill every buffer, next to a path where
\* createLink makes a link with a target of 130 bytes
RetryLinks ==
    [p \in Paths |-> IF p = <<SLASH, CH_d>> THEN EndlessTarget ELSE <<>>]

InitRetry ==
    /\ InitCommon /\ reg = RegLoaded /\ links = RetryLinks /\ target = FrameTarget
    /\ disk = NoDisk /\ OneThread

SpecRetry == InitRetry /\ [][NextLink]_vars

\* readTarget on a link that another process replaces at any moment
InitRace ==
    /\ InitCommon /\ reg = RegLoaded /\ target = <<>>
    /\ \E t \in RaceTargets :
         links = [p \in Paths |-> IF p = <<SLASH, CH_d>> THEN t ELSE <<>>]
    /\ disk = NoDisk /\ OneThread

NextRace == RlCall \/ RlMarshal \/ RlRead \/ Relink \/ Return

SpecRace == InitRace /\ [][NextRace]_vars

\* a call that was entered goes on until it returns
SpecRetryFair ==
    /\ SpecRetry
    /\ WF_vars(RlMarshal) /\ WF_vars(RlRead)
    /\ WF_vars(SymMarshalPath) /\ WF_vars(SymMarshalTarget) /\ WF_vars(SymCreate)

\* the capacities the doubling of line 148 reaches from 16
Caps == {InitialCapacity * Pow2(k) : k \in 0..26}

\* list in its loop with the collection nearly full, for every capacity,
\* and three more entries to come; the entries stored are not kept
InitCap ==
    /\ op = "list" /\ pc = "loop"
    /\ errno = 0 /\ exc = NoExc /\ result = NullRes
    /\ log = <<"malloc_path", "malloc_entry", "opendir">>
    /\ reg = RegLoaded
    /\ path = <<SLASH, CH_d>> /\ path_str = <<SLASH, CH_d, NUL>>
    /\ dirents = Fill(3) /\ dirpos = 0 /\ dirp = "open" /\ entryp = "buf"
    /\ entry_sz = DNameOffset + NAME_MAX + 1
    /\ res = [null |-> FALSE, a |-> <<>>]
    /\ res_cap \in Caps
    /\ res_cnt \in {res_cap - 2, res_cap - 1}
    /\ status = 0
    /\ links = NoLinks /\ target = <<>>
    /\ target_str = NULLPTR /\ buf_sz = ZeroSize /\ buf_ptr = "NULL"
    /\ buf = <<>> /\ n = ZeroSize
    /\ st = NoStat
    /\ ldmod = "none" /\ ldpos = 0
    /\ disk = NoDisk /\ OneThread

NextCap == CapStore

SpecCap == InitCap /\ [][NextCap]_vars

RegEmpty == [h \in AllHandles |-> FALSE]

InitLoad ==
    /\ InitCommon /\ reg = RegEmpty /\ links = NoLinks /\ target = <<>>
    /\ disk = NoDisk /\ OneThread

NextLoad == LoadCall \/ LoadStep \/ Unload \/ Return

SpecLoad == InitLoad /\ [][NextLoad]_vars

(***************************************************************************)
(* Properties of list                                                      *)
(***************************************************************************)
\* the error the mapping of section 4.6 names for an errno and a path
ExpectedError(e, p) ==
    CASE e = EACCES  -> [kind |-> "AccessDenied", hasMsg |-> TRUE, msg |-> p]
      [] e = ENOENT  -> [kind |-> "NoSuchFile", hasMsg |-> TRUE, msg |-> p]
      [] e = ENOTDIR -> [kind |-> "NotDirectory", hasMsg |-> TRUE, msg |-> p]
      [] OTHER       -> [kind |-> "NativeException", hasMsg |-> TRUE,
                         msg |-> CStr(strerror(e))]

ListSucceeded == op = "list" /\ pc = "done" /\ ~result.null

\* reference listing: the entries read so far whose name is neither "."
\* nor "..", by comparison of the whole name
IsPlainName(e) == CStr(e.d_name) \notin { <<DOT>>, <<DOT, DOT>> }
NonDotRead == SelectSeq(SubSeq(dirents, 1, dirpos), IsPlainName)

TimesReturned(nm) == Cardinality({j \in DOMAIN result.val : result.val[j].name = nm})
TimesRead(nm) == Cardinality({j \in DOMAIN NonDotRead : CStr(NonDotRead[j].d_name) = nm})

\* C2: a successful list returns exactly one entry for each entry read whose
\* name is not exactly "." or "..": never "." or "..", names that merely
\* begin with a dot are returned, nothing read is dropped or returned twice.
C2_ListNames ==
    ListSucceeded =>
      /\ \A j \in DOMAIN result.val :
           /\ ~result.val[j].null
           /\ result.val[j].name \notin { <<DOT>>, <<DOT, DOT>> }
           /\ TimesRead(result.val[j].name) = TimesReturned(result.val[j].name)
      /\ \A k \in DOMAIN NonDotRead :
           TimesReturned(CStr(NonDotRead[k].d_name)) = TimesRead(CStr(NonDotRead[k].d_name))

C2_Witness ==
    /\ ListSucceeded
    /\ \E k \in DOMAIN dirents : CStr(dirents[k].d_name) = <<DOT>>
    /\ \E k \in DOMAIN dirents : CStr(dirents[k].d_name) = <<DOT, DOT>>
    /\ \E j \in DOMAIN result.val : result.val[j].name = <<DOT, CH_a>>
    /\ Len(result.val) > InitialCapacity

\* C3: a successful list returns a collection whose length is exactly the
\* number n of non-dot entries, every slot holds an entry, and for n > 16
\* the storage was grown at least once during the call.
C3_ExactLength ==
    ListSucceeded =>
      /\ Len(result.val) = Len(NonDotRead)
      /\ \A j \in 1..Len(result.val) : ~result.val[j].null
      /\ (Len(NonDotRead) > 16 => Count("grow") >= 1)

C3_Witness ==
    /\ ListSucceeded
    /\ Len(NonDotRead) = 33
    /\ Len(result.val) = 33
    /\ Count("grow") = 2
    /\ Count("shrink") = 1

\* C6: on every exit path of list the directory handle is closed exactly
\* once if it was opened, the path buffer and the entry buffer are freed
\* exactly once if they were allocated, and none is held at return.
C6_ListCleanup ==
    (op = "list" /\ pc = "done") =>
      /\ Count("opendir") <= 1 /\ Count("closedir") = Count("opendir")
      /\ Count("malloc_path") <= 1 /\ Count("free_path") = Count("malloc_path")
      /\ Count("malloc_entry") <= 1 /\ Count("free_entry") = Count("malloc_entry")

C6_Witness ==
    /\ op = "list" /\ pc = "done" /\ result.null /\ exc # NoExc
    /\ Count("opendir") = 1 /\ Count("closedir") = 1
    /\ Count("free_path") = 1 /\ Count("free_entry") = 1
    /\ Count("grow") = 1

\* the type code of section 6 for a type the OS reports
TypeCode(t) ==
    IF t = DT_DIR THEN 1 ELSE IF t = DT_REG THEN 2 ELSE IF t = DT_LNK THEN 3 ELSE 0

\* the entry list builds for a directory entry (lines 151-160)
EntryOf(e) == [null |-> FALSE, name |-> CStr(e.d_name), type |-> TypeCode(e.d_type)]

\* C21: the collection holds the non-dot entries in the order they were
\* read: during the loop slot i of the storage, and at a successful return
\* index i of the result, is the i-th non-dot entry fetched, for every i up
\* to the live count; growths and the final shrink keep every index.
C21_ListingOrder ==
    /\ (op = "list" /\ pc \in {"loop", "finish"} /\ ~res.null) =>
         /\ res_cnt = Len(NonDotRead)
         /\ \A i \in 1..res_cnt : res.a[i] = EntryOf(NonDotRead[i])
    /\ ListSucceeded =>
         /\ Len(result.val) = Len(NonDotRead)
         /\ \A i \in DOMAIN result.val : result.val[i] = EntryOf(NonDotRead[i])

\* a listing of 33 different names with a skipped entry in front, after two
\* growths and the shrink
C21_Witness ==
    /\ ListSucceeded
    /\ Len(result.val) = 33
    /\ Count("grow") = 2 /\ Count("shrink") = 1
    /\ IsDotEntry(dirents[1])
    /\ \A i, j \in DOMAIN result.val :
         i # j => result.val[i].name # result.val[j].name

\* C23: for every result of the maximum-name-length query the entry buffer
\* is at least as large as the header, the name and the terminator of every
\* entry a directory read has written into it.
C23_EntryBufferFits ==
    (op = "list" /\ pc \in {"loop", "finish", "fail", "abort"} /\ entryp = "buf") =>
      \A k \in 1..dirpos : EntryBytes(dirents[k]) <= entry_sz

\* C19: capacity doubling in list is overflow-safe: whenever the collection
\* is full, the doubled capacity at the width of jint is exactly twice the
\* capacity and greater than it, and the live count never exceeds the
\* capacity.
C19_OverflowSafe ==
    (op = "list" /\ pc = "loop") =>
      /\ res_cnt <= res_cap
      /\ (res_cnt = res_cap) =>
           \A g \in GrownCap(res_cap) :
             ~g.trap /\ g.val > res_cap /\ g.val - res_cap = res_cap

CleanupEvents == {"closedir", "free_path", "free_entry"}

\* the fail label of list was reached and the call is about to return
ListFailed == op = "list" /\ pc = "done" /\ Count("throw_errno") = 1

\* C16 as stated: when list fails, the directory is closed and the buffers
\* are released before the error is raised.
C16_CleanupBeforeRaise ==
    ListFailed =>
      \A i, j \in DOMAIN log :
        (log[i] \in CleanupEvents /\ log[j] = "throw_errno") => i < j

\* C16 as amended: when list fails before its final shrink, the error is
\* raised first, while the path buffer it names is still allocated, and
\* the cleanup follows before the call returns: the directory is closed if
\* it was opened and each allocated buffer is released, once.
C16_CleanupBeforeReturn ==
    ListFailed =>
      /\ \A i, j \in DOMAIN log :
           (log[i] \in CleanupEvents /\ log[j] = "throw_errno") => j < i
      /\ Count("closedir") = Count("opendir")
      /\ Count("free_path") = Count("malloc_path")
      /\ Count("free_entry") = Count("malloc_entry")

\* a read returned a nonzero status: raise, closedir, free, free
C16_Witness ==
    /\ ListFailed /\ status # 0 /\ dirpos > 0
    /\ log = <<"malloc_path", "malloc_entry", "opendir",
               "throw_errno", "raise", "closedir", "free_path", "free_entry">>

\* C17: when readdir_r returns a nonzero status s, the error raised is the
\* Error Translator's mapping of s, whatever errno holds from earlier calls.
C17_StatusMapped ==
    (op = "list" /\ pc = "done" /\ status # 0) => exc = ExpectedError(status, path)

\* C13: the type code of every returned entry is 1 for a directory, 2 for a
\* regular file, 3 for a symlink and 0 for every other type the OS reports;
\* it is always one of 0, 1, 2, 3.
C13_TypeCodes ==
    ListSucceeded =>
      \A j \in DOMAIN result.val :
        /\ result.val[j].type \in {0, 1, 2, 3}
        /\ \A k \in 1..dirpos :
             CStr(dirents[k].d_name) = result.val[j].name
               => result.val[j].type = TypeCode(dirents[k].d_type)

C13_Witness ==
    /\ ListSucceeded
    /\ \E k \in 1..dirpos : dirents[k].d_type = DT_FIFO
    /\ \E j \in DOMAIN result.val :
         result.val[j].name = <<CH_a>> /\ result.val[j].type = 0
    /\ \A c \in {1, 2, 3} : \E j \in DOMAIN result.val : result.val[j].type = c

\* the names of the entries of a directory that are neither "." nor ".."
PlainNames(dir) ==
    {CStr(dir[k].d_name) : k \in {i \in DOMAIN dir : IsPlainName(dir[i])}}
ReturnedNames(val) == {val[j].name : j \in DOMAIN val}

\* a finished successful call of a thread returned the entries of its own
\* directory, each once
OwnEntries(t) ==
    (t.op = "list" /\ t.pc = "done" /\ ~t.result.null) =>
      /\ ReturnedNames(t.result.val) = PlainNames(disk[t.path])
      /\ Len(t.result.val) = Cardinality(PlainNames(disk[t.path]))
      /\ \A j \in DOMAIN t.result.val : ~t.result.val[j].null

\* C12: when two threads run list concurrently, on the same directory or on
\* different ones, every call returns exactly the non-dot entries of its own
\* directory under every interleaving of their steps.
C12_ConcurrentLists == OwnEntries(ThisThread) /\ OwnEntries(other)

\* one call has returned its entries while the other call, begun before,
\* is in the middle of its own directory
C12_Witness ==
    /\ ListSucceeded /\ Len(result.val) = 2
    /\ other.op = "list" /\ other.pc = "loop"
    /\ other.dirp = "open" /\ other.dirpos = 1
    /\ other.path # path
    /\ Len(log) > 0 /\ Len(other.log) > 0

(***************************************************************************)
(* Properties of createLink and readTarget                                 *)
(***************************************************************************)
ReadSucceeded == op = "readlink" /\ pc = "done" /\ ~result.null

HasNul(t) == \E i \in DOMAIN t : t[i] = NUL

\* number of times the read buffer was replaced by a larger one
Growths == Count("malloc_heap")

\* C4: round trip.  Every link of a run was made by a successful
\* createLink(p, target) at a path where nothing existed; for a non-empty
\* target without a null byte a successful readTarget(p) returns exactly
\* the target string, whatever its length relative to the 128-byte buffer.
C4_RoundTrip ==
    (ReadSucceeded /\ target # <<>> /\ ~HasNul(target)) =>
      /\ result.val = target
      /\ Len(result.val) = Len(target)

C4_Witness ==
    /\ ReadSucceeded
    /\ ~HasNul(target)
    /\ Len(target) = 256
    /\ result.val = target
    /\ Growths = 2

\* C5: readTarget on a link whose target has L bytes returns exactly those
\* L bytes; the buffer grows (each time to double its size) at least once
\* when L >= 128, the exact fit L = 128 included, never when L < 128, and
\* the returned length is strictly less than the size of the buffer last
\* read into.
C5_ExactRead ==
    ReadSucceeded =>
      LET t == links[CStr(path_str)] IN
        /\ result.val = t
        /\ (Len(t) >= 128 => Growths >= 1)
        /\ (Len(t) < 128 => Growths = 0)
        /\ buf_sz = ToSize(128 * Pow2(Growths))
        /\ Len(result.val) < SizeVal(buf_sz)

C5_Witness ==
    /\ ReadSucceeded
    /\ Len(links[CStr(path_str)]) = 128
    /\ Growths = 1
    /\ buf_sz = ToSize(256)
    /\ Len(result.val) = 128

\* C25: when the link is replaced between the reads of one readTarget call,
\* the string returned is the complete target the last read of the call
\* observed: the step that returns a string returns the target the link has
\* at that read, with no byte of an earlier buffer and no mixture.
C25_LastReadWins ==
    [][(op = "readlink" /\ pc = "read" /\ pc' = "done" /\ ~result'.null) =>
         result'.val = links[CStr(path_str)]]_vars

\* the first read filled the small buffer with a target of the byte a, the
\* link was replaced, and the second read found three bytes d: the heap
\* buffer still holds an a behind them, the string does not
C25_Witness ==
    /\ ReadSucceeded
    /\ Count("read") = 2 /\ Growths = 1
    /\ result.val = <<CH_d, CH_d, CH_d>>
    /\ Len(buf) = 256 /\ buf[4] = CH_a

\* number of events ev among the first k events of the call
CountUpTo(ev, k) == Cardinality({i \in 1..k : log[i] = ev})

\* C15: in readTarget and createLink every native buffer the call allocated
\* is freed exactly once before return: the path and the target buffer once
\* each, every heap read buffer once and before the next one is allocated
\* (at most one is live at any time); the stack buffer is never freed.
C15_LinkBuffers ==
    (op \in {"readlink", "symlink"}) =>
      /\ \A k \in 0..Len(log) :
           /\ CountUpTo("malloc_heap", k) - CountUpTo("free_heap", k) \in {0, 1}
           /\ CountUpTo("malloc_path", k) - CountUpTo("free_path", k) \in {0, 1}
           /\ CountUpTo("malloc_target", k) - CountUpTo("free_target", k) \in {0, 1}
      /\ Count("malloc_path") <= 1 /\ Count("malloc_target") <= 1
      /\ (pc = "done") =>
           /\ Count("free_heap") = Count("malloc_heap")
           /\ Count("free_path") = Count("malloc_path")
           /\ Count("free_target") = Count("malloc_target")

\* the exit through the size overflow, after 56 heap buffers
C15_Witness ==
    /\ op = "readlink" /\ pc = "done" /\ exc = jgit_ThrowOutOfMemory
    /\ Count("alloc_fail") = 0
    /\ Count("malloc_heap") = 56 /\ Count("free_heap") = 56
    /\ Count("free_path") = 1

\* 2^e as a size_t, for 0 <= e < 64
SizePow2(e) == [i \in 1..4 |-> IF i = (e \div 16) + 1 THEN Pow2(e % 16) ELSE 0]

SizeBits == 64
\* the sizes 128 * 2^k that fit the size type: k = 0 .. 56
MaxGrowths == SizeBits - 8

\* C18: every buffer size readTarget uses is 128 * 2^k, each retry exactly
\* doubles it, no read and no allocation uses a wrapped size; when the
\* doubling wraps, OutOfMemory is raised instead.
C18_OverflowChecked ==
    (op = "readlink" /\ pc \in {"read", "done"} /\ Count("malloc_path") = 1) =>
      /\ Growths <= MaxGrowths
      /\ buf_sz = SizePow2(7 + Growths)
      /\ Count("read") <= Growths + 1
      /\ (pc = "done" /\ Count("read") = MaxGrowths + 1 /\ NeedRetry(n, buf_sz)) =>
           /\ exc = jgit_ThrowOutOfMemory /\ result.null
           /\ Count("alloc_fail") = 0

C18_Witness ==
    /\ op = "readlink" /\ pc = "done"
    /\ buf_sz = << 0, 0, 0, 32768 >>
    /\ n = buf_sz
    /\ Count("read") = 57 /\ Growths = 56
    /\ exc = jgit_ThrowOutOfMemory

\* one read per size 128 * 2^k of the size type
MaxReads == MaxGrowths + 1

\* C20: readTarget terminates: whatever the reads and the allocations
\* yield, a call performs at most one read per possible buffer size and
\* then returns a string or raises an error.
C20_Terminates ==
    /\ [](op = "readlink" => Count("read") <= MaxReads)
    /\ (op = "readlink") ~> (op = "readlink" /\ pc = "done"
                               /\ (~result.null \/ exc # NoExc))

C20_Witness ==
    /\ op = "readlink" /\ pc = "done"
    /\ Count("read") = MaxReads
    /\ result.null /\ exc # NoExc

(***************************************************************************)
(* Properties of the error protocol                                        *)
(***************************************************************************)
BoundaryOps == {"list", "readlink", "symlink", "lstat"}

\* a result is handed to the caller; createLink has no result value, it
\* returns normally when nothing is pending
HasResult == IF op = "symlink" THEN exc = NoExc ELSE ~result.null

\* C1: every boundary operation ends either with a result and no pending
\* error, or with no result and exactly one error raised; no error is
\* raised while an earlier error of the same call is pending.
C1_OneOutcome ==
    (op \in BoundaryOps /\ pc = "done") =>
      /\ Count("reraise") = 0
      /\ \/ HasResult /\ exc = NoExc /\ Count("raise") = 0
         \/ ~HasResult /\ exc # NoExc /\ Count("raise") = 1

\* C11: whenever an allocation fails inside a boundary operation, the error
\* the caller receives is OutOfMemory, never an error derived from errno.
C11_AllocFailureIsOOM ==
    (op \in BoundaryOps /\ pc = "done" /\ Count("alloc_fail") > 0) =>
      exc.kind = "OutOfMemory"

\* C8: jgit_ThrowErrno raises AccessDenied(path) for EACCES,
\* NoSuchFile(path) for ENOENT, NotDirectory(path) for ENOTDIR and
\* NativeException(system message) for every other errno; one error per
\* invocation, determined by errno and the path alone.
C8_Translation ==
    (op \in {"readlink", "symlink"} /\ pc = "done" /\ Count("throw_errno") > 0) =>
      /\ Count("throw_errno") = 1
      /\ Count("raise") = 1 /\ Count("reraise") = 0
      /\ exc = ExpectedError(errno, path)

C8_Witness ==
    /\ op = "readlink" /\ pc = "done" /\ Count("throw_errno") = 1
    /\ errno = ENOTDIR
    /\ exc = [kind |-> "NotDirectory", hasMsg |-> TRUE, msg |-> path]

\* C9: when the stat call of probe fails, probe raises the error the Error
\* Translator yields for that errno and path (here for the calls in which
\* the path characters were obtained and the error class was found).
C9_ProbeLikeTranslator ==
    (op = "lstat" /\ pc = "done" /\ Count("lstat_fail") = 1
       /\ Count("get_chars") = 1 /\ exc.kind # "NoClassDefFound") =>
      exc = jgit_ThrowErrno(errno, path_str)

(***************************************************************************)
(* Properties of probe                                                     *)
(***************************************************************************)
ProbeSucceeded == op = "lstat" /\ pc = "done" /\ ~result.null

\* the native value x, read as an unsigned number, equals the jint j
NumEqual(j, x) ==
    /\ \A i \in 3..Len(x) : x[i] = 0
    /\ x[2] < SignLimb
    /\ j = x[2] * LimbBase + x[1]

\* the two limbs of the bit pattern of a jint
JintBits(j) == << j % LimbBase, (j \div LimbBase) % LimbBase >>

IdFields == {"dev", "ino", "mode", "uid", "gid"}
RecField(f) ==
    CASE f = "dev" -> result.val.dev [] f = "ino" -> result.val.ino
      [] f = "mode" -> result.val.mode [] f = "uid" -> result.val.uid
      [] OTHER -> result.val.gid
RefField(f) ==
    CASE f = "dev" -> st.st_dev [] f = "ino" -> st.st_ino
      [] f = "mode" -> st.st_mode [] f = "uid" -> st.st_uid
      [] OTHER -> st.st_gid

\* C10 as stated: device, inode, mode, uid, gid and size of the returned
\* record equal the values of the reference stat, over the full native
\* width of each field.
C10_MatchesReference ==
    ProbeSucceeded =>
      /\ \A f \in IdFields : NumEqual(RecField(f), RefField(f))
      /\ result.val.size = st.st_size

\* C10 as amended: size equals the reference size at its full 64-bit width;
\* device, inode, mode, uid and gid hold the low 32 bits of the reference
\* value, and equal it whenever it is below 2^31.
C10_MatchesLow32 ==
    ProbeSucceeded =>
      /\ \A f \in IdFields :
           /\ JintBits(RecField(f)) = SubSeq(RefField(f), 1, 2)
           /\ ((\A i \in 3..Len(RefField(f)) : RefField(f)[i] = 0)
                  /\ RefField(f)[2] < SignLimb)
                => NumEqual(RecField(f), RefField(f))
      /\ result.val.size = st.st_size

C10_Witness ==
    /\ ProbeSucceeded
    /\ st.st_ino = <<65535, 32768, 1, 0>>
    /\ result.val.ino = -2147418113
    /\ result.val.dev = 2049
    /\ result.val.size = <<4096, 0, 0, 0>>

\* the stat field each 32-bit field of the record is taken from
StatName ==
    [ctime |-> "st_ctime", mtime |-> "st_mtime",
     ctime_nsec |-> "st_ctimensec", mtime_nsec |-> "st_mtimensec",
     dev |-> "st_dev", ino |-> "st_ino", mode |-> "st_mode",
     uid |-> "st_uid", gid |-> "st_gid"]

\* C22: on a successful probe the record has its ten fields, size holds the
\* stat size at its full 64-bit width, and device, inode, mode, uid, gid and
\* the seconds and nanoseconds of both times hold exactly the low 32 bits of
\* the value of the one stat result of the call.
C22_FieldWidths ==
    ProbeSucceeded =>
      /\ DOMAIN result.val = DOMAIN StatName \cup {"size"}
      /\ Len(result.val.size) = 4
      /\ result.val.size = ToJlong(st.st_size)
      /\ \A f \in DOMAIN StatName :
           /\ result.val[f] \in (0 - JintMax - 1)..JintMax
           /\ JintBits(result.val[f]) = SubSeq(st[StatName[f]], 1, 2)

\* a modification time beyond 32 bits whose low half has the sign bit set
C22_Witness ==
    /\ ProbeSucceeded
    /\ st.st_mtime = <<1, 32768, 1, 32768>>
    /\ result.val.mtime = 0 - JintMax
    /\ result.val.ctime = 25000 * LimbBase + 11
    /\ result.val.mtime_nsec = 16 * LimbBase + 15

\* C24: in both variants of probe the path characters obtained from the
\* host string are released exactly once on every exit path, and are never
\* read after their release, not even as the detail of the raised error.
C24_PathCharsReleased ==
    (op \in {"lstat", "lstat_old"} /\ pc = "done" /\ Count("get_chars") = 1) =>
      /\ Count("release_chars") = 1
      /\ \A i, j \in DOMAIN log :
           (log[i] = "release_chars" /\ log[j] = "read_chars") => j < i

\* C14: between a successful load and unload no boundary operation writes a
\* handle of the registry, on success paths and on error paths: every step
\* of every operation leaves the registry as it was.
C14_RegistryFrame == [][reg' = reg]_vars

\* a list call has failed through the Error Translator after a createLink
\* made a link and after a probe failed: the registry is as load left it
C14_Witness ==
    /\ op = "list" /\ pc = "done" /\ Count("throw_errno") = 1 /\ exc # NoExc
    /\ errno = EFAULT
    /\ \E p \in Paths : links[p] = FrameTarget
    /\ reg = RegLoaded

(***************************************************************************)
(* Properties of load                                                      *)
(***************************************************************************)
FullyResolved(m) == \A h \in Range(Handles(m)) : reg[h]
HoldsNothing(m) == \A h \in Range(Handles(m)) : ~reg[h]

\* C7: after load returns, the registry of the loaded module is either
\* fully resolved or holds nothing; a failed load returns the failure
\* status and keeps no handle it resolved earlier.
C7_AllOrNothing ==
    (op = "load" /\ pc = "done") =>
      /\ FullyResolved(ldmod) \/ HoldsNothing(ldmod)
      /\ (result.val = 0) <=> FullyResolved(ldmod)

====
